---- MODULE Spec2Model ----
(***************************************************************************)
(* A model of the arbiter distributed lock (impl.go, client.go, the Lua    *)
(* scripts of internal/lua/scripts.go).                                    *)
(*                                                                         *)
(* Time is discrete; one unit is 50 ms, half the poll interval of Lock. The *)
(* store runs each script as one atomic step.  A store call takes no time: *)
(* the clock advances only when every goroutine is waiting (sleeping,      *)
(* blocked, or idle between two calls of the user).  A stretch of code     *)
(* that runs under l.mu without blocking is one step, taken when the mutex *)
(* is free; the steps are split where a goroutine can block: Lock's        *)
(* select, Unlock's <-l.watchDogDone, the watchdog's select and the        *)
(* l.mu.Lock() of the watchdog's Refresh.                                  *)
(***************************************************************************)
EXTENDS Integers, FiniteSets, Sequences, TLC

\* ------------------------------------------------------------------ bounds
WaitUnits == 3       \* the non-zero WaitTimeout handed to WithWaitTimeout
LeaseUnits == 2      \* the LeaseTime handed to WithLeaseTime
WatchDogUnits == 3   \* the WatchDogTimeout handed to WithWatchDogTimeout

\* ------------------------------------------------------- program constants
PollInterval == 2    \* time.After(100 * time.Millisecond), in time units

\* Two handles, built by NewLock for the same name, contend.
Handles == {1, 2}
\* Two calling goroutines, each working on one handle.
Callers == {1, 2}
\* Contexts: context.Background(), and one cancellable context the callers share.
Background == "background"
Cancellable == "cancellable"
Ctxs == {Background, Cancellable}
NoCtx == "none"

VARIABLES
  handle,      \* caller -> the handle the goroutine makes its calls on (immutable)
  faults,      \* store calls may fail in this run (fixed at the start)
  store,       \* key -> record [owner, ttl]; owner 0: no record at the key
  options,     \* handle -> LockOptions (immutable)
  prefix,      \* handle -> the key prefix of the Client that built it (immutable)
  mu,          \* handle -> holder of l.mu across steps: 0 free, or a caller in Unlock
  wdOnce,      \* handle -> watchDogOnce has run
  wdCancel,    \* handle -> "nil" | "set" | "cancelled": l.watchDogCancel / watchDogCtx
  wdCtx,       \* handle -> the ctx captured by the watchdog goroutine
  wdDone,      \* handle -> l.watchDogDone is closed
  wdpc,        \* handle -> position of the watchdog goroutine
  tickLeft,    \* handle -> time until the ticker's next tick
  tickPending, \* handle -> a tick waits in ticker.C (buffer of one)
  pc,          \* caller -> position
  op,          \* caller -> the public operation called (current or last)
  cctx,        \* caller -> ctx of the call in progress
  res,         \* caller -> what the last call returned
  deadline,    \* caller -> Lock's deadline, as the time left until it
               \* (deadline - time.Now(); negative once the deadline has passed)
  sleepLeft,   \* caller -> time until Lock's retry timer fires
  evals,       \* caller -> l.redis.Eval calls made by the TryLock, Unlock or
               \* Refresh the caller is in, or was in last (Lock calls TryLock)
  evalErr,     \* caller -> err of the last l.redis.Eval of that call: "nil", or
               \* the error (result, err := l.redis.Eval(...))
  ctxDone,     \* the cancellable ctx is done (cancelled, or past its deadline)
  held,        \* handle -> Held: ConditionalCreate succeeded for its token and
               \* neither a successful Unlock nor the record's expiry followed
  acq          \* handle -> the ctx of the TryLock/Lock call that last returned
               \* success, until Unlock is next called on the handle; else NoCtx

vars == <<handle, faults, store, options, prefix, mu, wdOnce, wdCancel, wdCtx, wdDone, wdpc,
          tickLeft, tickPending, pc, op, cctx, res, deadline, sleepLeft, evals,
          evalErr, ctxDone, held, acq>>

cfg == <<handle, faults, options, prefix>>

HandleOf(c) == handle[c]
wdvars == <<wdOnce, wdCancel, wdCtx, wdDone, wdpc, tickLeft, tickPending>>
cvars == <<pc, op, cctx, res, deadline, sleepLeft, evals, evalErr>>

\* ----------------------------------------------------------------- options
\* defaultOptions with the With... options applied (durations in time units).
NewOptions(wait, lease, dog, dogTimeout) ==
  [WaitTimeout |-> wait, LeaseTime |-> lease,
   EnableWatchDog |-> dog, WatchDogTimeout |-> dogTimeout]

OptionSet ==
  { NewOptions(0, LeaseUnits, TRUE, WatchDogUnits),
    NewOptions(WaitUnits, LeaseUnits, FALSE, WatchDogUnits) }

\* ------------------------------------------------------------ client, keys
defaultKeyPrefix == "arbiter:"
\* A Client that ignores WithKeyPrefix (to test NamespaceIsolation).
PrefixDefault(h) == defaultKeyPrefix

\* c.prefix of the Client the handle was built by
Prefix(h) == prefix[h]
LockName(h) == "res"
\* Client.NewLock: fmt.Sprintf("%s%s", c.prefix, name)
KeyOf(h) == Prefix(h) \o LockName(h)
Keys == {KeyOf(h) : h \in Handles}
\* generateValue: 16 random bytes, one value per handle.
Token(h) == h

NoRecord == [owner |-> 0, ttl |-> 0]

\* ------------------------------------------------------------- Lua scripts
\* redis pexpire: a ttl that is not positive deletes the key.
PExpire(rec, ttl) == IF ttl <= 0 THEN NoRecord ELSE [rec EXCEPT !.ttl = ttl]

\* A faulty TryLock script that skips the exists check (to test MutualExclusion).
LuaTryLockOverwrite(rec, token, ttl) ==
  [rec |-> PExpire([owner |-> token, ttl |-> 0], ttl), ret |-> 1]

\* A faulty TryLock script with the pexpire outside the if (to test
\* TryLockContended).
LuaTryLockTouch(rec, token, ttl) ==
  IF rec.owner = 0
    THEN [rec |-> PExpire([owner |-> token, ttl |-> 0], ttl), ret |-> 1]
    ELSE [rec |-> PExpire(rec, ttl), ret |-> 0]

LuaTryLock(rec, token, ttl) ==
  IF rec.owner = 0
    THEN [rec |-> PExpire([owner |-> token, ttl |-> 0], ttl), ret |-> 1]
    ELSE [rec |-> rec, ret |-> 0]

\* A faulty Unlock script that deletes whatever is at the key (to test SafeRelease).
LuaUnlockAnyOwner(rec, token) ==
  [rec |-> NoRecord, ret |-> IF rec.owner = 0 THEN 0 ELSE 1]

\* A faulty Unlock script that answers 1 to the owner without the del (to test
\* RoundTrip).
LuaUnlockKeep(rec, token) ==
  [rec |-> rec, ret |-> IF rec.owner = token THEN 1 ELSE 0]

LuaUnlock(rec, token) ==
  IF rec.owner = token
    THEN [rec |-> NoRecord, ret |-> 1]
    ELSE [rec |-> rec, ret |-> 0]

\* A faulty Refresh script that extends whatever is at the key (to test
\* RefreshSafe).
LuaRefreshAnyOwner(rec, token, ttl) ==
  IF rec.owner # 0
    THEN [rec |-> PExpire(rec, ttl), ret |-> 1]
    ELSE [rec |-> rec, ret |-> 0]

LuaRefresh(rec, token, ttl) ==
  IF rec.owner = token
    THEN [rec |-> PExpire(rec, ttl), ret |-> 1]
    ELSE [rec |-> rec, ret |-> 0]

\* ------------------------------------------------------------- store calls
CtxIsDone(x) == x = Cancellable /\ ctxDone

\* redis.Eval(ctx, ...): with a done ctx the client returns ctx.Err() without
\* running the script; otherwise the script runs and answers ("ok"), the call
\* fails before the script runs ("storeErr"), or the script runs and the reply
\* is lost ("replyLost").
EvalOutcomes(x) ==
  IF CtxIsDone(x) THEN {"ctxErr"}
  ELSE IF faults THEN {"ok", "storeErr", "replyLost"}
  ELSE {"ok"}
Applied(o) == o \in {"ok", "replyLost"}
\* The error Eval returns for an outcome that is not "ok".
EvalErr(o) == IF o = "ctxErr" THEN "ctxErr" ELSE "storeErr"

\* A faulty leaseTime that is LeaseTime whether the watchdog is enabled or not
\* (to test EffectiveLeaseSent).
EffectiveLeaseNoWatchDog(h) == options[h].LeaseTime

\* leaseTime of TryLock and Refresh
EffectiveLease(h) ==
  IF options[h].EnableWatchDog THEN options[h].WatchDogTimeout
                               ELSE options[h].LeaseTime

\* time.NewTicker(l.options.WatchDogTimeout / 3)
TickPeriod(h) == options[h].WatchDogTimeout \div 3

\* -------------------------------------------------------------------- Init
\* NewClient with the prefixes p (handle -> prefix), NewLock for each handle.
\* Caller c works on handle hs[c].
InitWith(p, hs) ==
  /\ handle = hs
  /\ faults \in BOOLEAN
  /\ prefix = p
  /\ store = [k \in Keys |-> NoRecord]
  /\ options \in [Handles -> OptionSet]
  /\ mu = [h \in Handles |-> 0]
  /\ wdOnce = [h \in Handles |-> FALSE]
  /\ wdCancel = [h \in Handles |-> "nil"]
  /\ wdCtx = [h \in Handles |-> Background]
  /\ wdDone = [h \in Handles |-> FALSE]
  /\ wdpc = [h \in Handles |-> "none"]
  /\ tickLeft = [h \in Handles |-> 0]
  /\ tickPending = [h \in Handles |-> FALSE]
  /\ pc = [c \in Callers |-> "idle"]
  /\ op = [c \in Callers |-> "none"]
  /\ cctx = [c \in Callers |-> Background]
  /\ res = [c \in Callers |-> "none"]
  /\ deadline = [c \in Callers |-> 0]
  /\ sleepLeft = [c \in Callers |-> 0]
  /\ evals = [c \in Callers |-> 0]
  /\ evalErr = [c \in Callers |-> "nil"]
  /\ ctxDone = FALSE
  /\ held = [h \in Handles |-> FALSE]
  /\ acq = [h \in Handles |-> NoCtx]

\* Both handles are built by Clients with the default prefix.
\* One calling goroutine per handle.
OwnHandle == [c \in Callers |-> c]

Init == InitWith([h \in Handles |-> defaultKeyPrefix], OwnHandle)

\* The handles are built by two Clients with different WithKeyPrefix.
CustomPrefixes == [h \in Handles |-> IF h = 1 THEN "prefix1:" ELSE "prefix2:"]
InitPrefixes == InitWith(CustomPrefixes, OwnHandle) /\ ~faults

\* Both goroutines make their calls on handle 1; handle 2 is not used.
InitShared ==
  /\ InitWith([h \in Handles |-> defaultKeyPrefix], [c \in Callers |-> 1])
  /\ options[2] = options[1]

\* ------------------------------------------------------- returning a call
\* Call o of caller c returns r: the caller has the result in hand ("ret").
\* deadline and sleepLeft stay as the call left them until Observe.
Finish(c, o, r, d) ==
  /\ pc' = [pc EXCEPT ![c] = "ret"]
  /\ op' = [op EXCEPT ![c] = o]
  /\ res' = [res EXCEPT ![c] = r]
  /\ cctx' = [cctx EXCEPT ![c] = Background]
  /\ deadline' = [deadline EXCEPT ![c] = d]
  /\ sleepLeft' = sleepLeft

\* The TryLock, Unlock or Refresh of caller c makes one l.redis.Eval call;
\* before is the number it had made (0 for one that has just been entered),
\* out the outcome of the call.
CountEval(c, before, out) ==
  /\ evals' = [evals EXCEPT ![c] = before + 1]
  /\ evalErr' = [evalErr EXCEPT ![c] = IF out = "ok" THEN "nil" ELSE EvalErr(out)]

\* Call o of caller c, made with ctx x, blocks at position p.
Block(c, o, x, p, d, s) ==
  /\ pc' = [pc EXCEPT ![c] = p]
  /\ op' = [op EXCEPT ![c] = o]
  /\ res' = [res EXCEPT ![c] = "pending"]
  /\ cctx' = [cctx EXCEPT ![c] = x]
  /\ deadline' = [deadline EXCEPT ![c] = d]
  /\ sleepLeft' = [sleepLeft EXCEPT ![c] = s]

\* No caller has a result in hand.  A caller that has just got a result looks
\* at it before anything else happens: Observe changes nothing another
\* goroutine reads, so every other order of the same steps leads to the same
\* states but for op and res.
Quiet == \A c \in Callers : pc[c] # "ret"

\* The caller has looked at the result (err := lock.Lock(ctx); if err != nil ...)
\* and is free to make its next call.
Observe(c) ==
  /\ pc[c] = "ret"
  /\ pc' = [pc EXCEPT ![c] = "idle"]
  /\ op' = [op EXCEPT ![c] = "none"]
  /\ res' = [res EXCEPT ![c] = "none"]
  /\ deadline' = [deadline EXCEPT ![c] = 0]
  /\ sleepLeft' = [sleepLeft EXCEPT ![c] = 0]
  /\ evals' = [evals EXCEPT ![c] = 0]
  /\ evalErr' = [evalErr EXCEPT ![c] = "nil"]
  /\ UNCHANGED <<cfg, store, mu, wdvars, cctx, ctxDone, held, acq>>

\* The cancellable ctx is cancelled (or its deadline passes).
CancelCtx ==
  /\ Quiet
  /\ ~ctxDone
  /\ ctxDone' = TRUE
  /\ UNCHANGED <<cfg, store, mu, wdvars, cvars, held, acq>>

\* --------------------------------------------------------- TryLock, Lock
\* startWatchDog: watchDogOnce.Do(...) creates watchDogCtx/watchDogCancel and
\* spawns the goroutine, which captures ctx, defers close(l.watchDogDone),
\* creates ticker := time.NewTicker(l.options.WatchDogTimeout / 3) and enters
\* its select.
\* A faulty startWatchDog without the watchDogOnce (to test OneWatchDog).
startWatchDogEveryTime(h, x) ==
  /\ wdOnce' = [wdOnce EXCEPT ![h] = TRUE]
  /\ wdCancel' = [wdCancel EXCEPT ![h] = "set"]
  /\ wdCtx' = [wdCtx EXCEPT ![h] = x]
  /\ wdpc' = [wdpc EXCEPT ![h] = "select"]
  /\ tickLeft' = [tickLeft EXCEPT ![h] = TickPeriod(h)]
  /\ tickPending' = [tickPending EXCEPT ![h] = FALSE]
  /\ wdDone' = wdDone

startWatchDog(h, x) ==
  IF wdOnce[h]
    THEN UNCHANGED wdvars
    ELSE /\ wdOnce' = [wdOnce EXCEPT ![h] = TRUE]
         /\ wdCancel' = [wdCancel EXCEPT ![h] = "set"]
         /\ wdCtx' = [wdCtx EXCEPT ![h] = x]
         /\ wdpc' = [wdpc EXCEPT ![h] = "select"]
         /\ tickLeft' = [tickLeft EXCEPT ![h] = TickPeriod(h)]
         /\ tickPending' = [tickPending EXCEPT ![h] = FALSE]
         /\ wdDone' = wdDone

\* Lock: deadline := time.Now().Add(l.options.WaitTimeout), as the time left.
LockDeadline(c) == options[HandleOf(c)].WaitTimeout

\* Lock: l.options.WaitTimeout > 0 && time.Now().After(deadline), with d the
\* whole time units left until the deadline.  With WaitTimeout > 0 the check
\* finds d = 0 only after a time.After of the loop has fired: the clock it
\* reads is then later than the deadline, which was computed before the loop
\* from an earlier reading plus the units that have passed in full since.
\* Faulty deadline checks (to test TimeoutWindow and CancellationDistinct):
\* time.Now().Before(deadline), and the check without WaitTimeout > 0.
TimedOutBefore(c, d) ==
  options[HandleOf(c)].WaitTimeout > 0 /\ d > 0

TimedOutAnyWait(c, d) == d <= 0

TimedOut(c, d) ==
  options[HandleOf(c)].WaitTimeout > 0 /\ d <= 0

\* TryLock returned (false, nil): TryLock's caller gets it; Lock checks the
\* deadline and either returns ErrLockTimeout or enters the select with a
\* fresh time.After(100ms).
\* A faulty Lock that gives up at the first (false, nil) (to test LockExitsAmended).
ContendedNoRetry(c, o, x, d) ==
  IF o = "TryLock" THEN Finish(c, o, "contended", d)
  ELSE Finish(c, o, "ErrLockTimeout", d)

\* A faulty Lock that takes WaitTimeout 0 for "a single attempt" (to test
\* ZeroWaitNoDeadline).
ContendedSingleAttempt(c, o, x, d) ==
  IF o = "TryLock" THEN Finish(c, o, "contended", d)
  ELSE IF TimedOut(c, d) \/ options[HandleOf(c)].WaitTimeout = 0
    THEN Finish(c, o, "ErrLockTimeout", d)
  ELSE Block(c, o, x, "lock_wait", d, PollInterval)

Contended(c, o, x, d) ==
  IF o = "TryLock" THEN Finish(c, o, "contended", d)
  ELSE IF TimedOut(c, d) THEN Finish(c, o, "ErrLockTimeout", d)
  ELSE Block(c, o, x, "lock_wait", d, PollInterval)

\* A faulty TryLock/Lock in which Lock takes an error of TryLock for
\* (false, nil) and tries again (to test StoreFailuresPropagated).
TryLockRetryOnError(c, o, x, d) ==
  LET h == HandleOf(c)
      k == KeyOf(HandleOf(c))
  IN \E out \in EvalOutcomes(x) :
       LET r == LuaTryLock(store[k], Token(h), EffectiveLease(h))
           ok == out = "ok" /\ r.ret = 1
       IN /\ mu[h] = 0
          /\ store' = IF Applied(out) THEN [store EXCEPT ![k] = r.rec] ELSE store
          /\ held' = IF Applied(out) /\ r.ret = 1 /\ r.rec.owner = Token(h)
                       THEN [held EXCEPT ![h] = TRUE] ELSE held
          /\ acq' = IF ok THEN [acq EXCEPT ![h] = x] ELSE acq
          /\ IF ok /\ options[h].EnableWatchDog
               THEN startWatchDog(h, x)
               ELSE UNCHANGED wdvars
          /\ CountEval(c, 0, out)
          /\ IF out # "ok" /\ o = "TryLock" THEN Finish(c, o, EvalErr(out), d)
             ELSE IF ok THEN Finish(c, o, IF o = "Lock" THEN "nil" ELSE "acquired", d)
             ELSE Contended(c, o, x, d)
          /\ UNCHANGED <<cfg, mu, ctxDone>>

\* One TryLock, called by the user (o = "TryLock") or by Lock's loop
\* (o = "Lock") with ctx x, from l.mu.Lock() to the deferred l.mu.Unlock();
\* for Lock, the rest of the loop body up to the select follows.
TryLock(c, o, x, d) ==
  LET h == HandleOf(c)
      k == KeyOf(HandleOf(c))
  IN \E out \in EvalOutcomes(x) :
       LET r == LuaTryLock(store[k], Token(h), EffectiveLease(h))
           ok == out = "ok" /\ r.ret = 1
       IN /\ mu[h] = 0
          /\ store' = IF Applied(out) THEN [store EXCEPT ![k] = r.rec] ELSE store
          /\ held' = IF Applied(out) /\ r.ret = 1 /\ r.rec.owner = Token(h)
                       THEN [held EXCEPT ![h] = TRUE] ELSE held
          /\ acq' = IF ok THEN [acq EXCEPT ![h] = x] ELSE acq
          /\ IF ok /\ options[h].EnableWatchDog
               THEN startWatchDog(h, x)
               ELSE UNCHANGED wdvars
          /\ CountEval(c, 0, out)
          /\ IF out # "ok" THEN Finish(c, o, EvalErr(out), d)
             ELSE IF ok THEN Finish(c, o, IF o = "Lock" THEN "nil" ELSE "acquired", d)
             ELSE Contended(c, o, x, d)
          /\ UNCHANGED <<cfg, mu, ctxDone>>

\* The user calls TryLock(ctx).
CallTryLock(c) ==
  /\ Quiet
  /\ pc[c] = "idle"
  /\ \E x \in Ctxs : TryLock(c, "TryLock", x, 0)

\* The user calls Lock(ctx): the deadline, and the first turn of the loop.
CallLock(c) ==
  /\ Quiet
  /\ pc[c] = "idle"
  /\ \E x \in Ctxs : TryLock(c, "Lock", x, LockDeadline(c))

\* Lock's select: case <-time.After(100 * time.Millisecond): continue, and the
\* next turn of the loop.
LockRetry(c) ==
  /\ Quiet
  /\ pc[c] = "lock_wait"
  /\ sleepLeft[c] = 0
  /\ TryLock(c, "Lock", cctx[c], deadline[c])

\* Lock's select: case <-ctx.Done(): return ctx.Err()
LockWaitCtxDone(c) ==
  /\ Quiet
  /\ pc[c] = "lock_wait"
  /\ CtxIsDone(cctx[c])
  /\ Finish(c, "Lock", "ctxErr", deadline[c])
  /\ UNCHANGED <<evals, evalErr>>
  /\ UNCHANGED <<cfg, store, mu, wdvars, ctxDone, held, acq>>

\* ---------------------------------------------------------------- Unlock
\* What Unlock and Refresh return for an outcome and a script's reply.
OwnerResult(out, ret) ==
  IF out # "ok" THEN EvalErr(out)
  ELSE IF ret = 1 THEN "nil" ELSE "ErrLockNotHeld"

\* The Eval of Unlock with ctx x and the return.
UnlockDelete(c, x) ==
  LET h == HandleOf(c)
      k == KeyOf(HandleOf(c))
  IN \E out \in EvalOutcomes(x) :
       LET r == LuaUnlock(store[k], Token(h))
       IN /\ store' = IF Applied(out) THEN [store EXCEPT ![k] = r.rec] ELSE store
          /\ held' = IF Applied(out) /\ r.ret = 1
                       THEN [held EXCEPT ![h] = FALSE] ELSE held
          /\ CountEval(c, evals[c], out)
          /\ Finish(c, "Unlock", OwnerResult(out, r.ret), 0)

\* A faulty Unlock that cancels the watchdog and goes on to the Eval without
\* <-l.watchDogDone (to test UnlockAfterWatchDog).
CallUnlockNoWait(c) ==
  LET h == HandleOf(c) IN
  /\ Quiet
  /\ pc[c] = "idle"
  /\ mu[h] = 0
  /\ acq' = [acq EXCEPT ![h] = NoCtx]
  /\ wdCancel' = [wdCancel EXCEPT ![h] = IF @ = "nil" THEN "nil" ELSE "cancelled"]
  /\ \E x \in Ctxs : UnlockDelete(c, x)
  /\ UNCHANGED <<cfg, mu, wdOnce, wdCtx, wdDone, wdpc, tickLeft, tickPending, ctxDone>>

\* The user calls Unlock(ctx): l.mu.Lock(); if l.watchDogCancel != nil,
\* l.watchDogCancel() and <-l.watchDogDone, where the call blocks, holding the
\* mutex, unless the channel is closed already; else on to the Eval.
CallUnlock(c) ==
  LET h == HandleOf(c) IN
  /\ Quiet
  /\ pc[c] = "idle"
  /\ mu[h] = 0
  /\ acq' = [acq EXCEPT ![h] = NoCtx]
  /\ wdCancel' = [wdCancel EXCEPT ![h] = IF @ = "nil" THEN "nil" ELSE "cancelled"]
  /\ \E x \in Ctxs :
       IF wdCancel[h] # "nil" /\ ~wdDone[h]
         THEN /\ Block(c, "Unlock", x, "unl_wait", 0, 0)
              /\ UNCHANGED <<evals, evalErr>>
              /\ mu' = [mu EXCEPT ![h] = c]
              /\ UNCHANGED <<store, held>>
         ELSE /\ UnlockDelete(c, x)
              /\ mu' = mu
  /\ UNCHANGED <<cfg, wdOnce, wdCtx, wdDone, wdpc, tickLeft, tickPending, ctxDone>>

\* <-l.watchDogDone returns; the Eval, the return, the deferred l.mu.Unlock().
UnlockAfterDone(c) ==
  /\ Quiet
  /\ pc[c] = "unl_wait"
  /\ wdDone[HandleOf(c)]
  /\ UnlockDelete(c, cctx[c])
  /\ mu' = [mu EXCEPT ![HandleOf(c)] = 0]
  /\ UNCHANGED <<cfg, wdvars, ctxDone, acq>>

\* --------------------------------------------------------------- Refresh
\* The store's side of Refresh, shared by the user's call and the watchdog's.
RefreshStore(h, out) ==
  LET r == LuaRefresh(store[KeyOf(h)], Token(h), EffectiveLease(h))
  IN IF Applied(out) THEN [store EXCEPT ![KeyOf(h)] = r.rec] ELSE store

RefreshResult(h, out) ==
  OwnerResult(out, LuaRefresh(store[KeyOf(h)], Token(h), EffectiveLease(h)).ret)

\* A faulty Refresh without l.mu.Lock() (to test Serialization).
CallRefreshNoMutex(c) ==
  LET h == HandleOf(c) IN
  /\ Quiet
  /\ pc[c] = "idle"
  /\ \E x \in Ctxs : \E out \in EvalOutcomes(x) :
       /\ store' = RefreshStore(h, out)
       /\ CountEval(c, evals[c], out)
       /\ Finish(c, "Refresh", RefreshResult(h, out), 0)
  /\ UNCHANGED <<cfg, mu, wdvars, ctxDone, held, acq>>

\* The user calls Refresh(ctx).
CallRefresh(c) ==
  LET h == HandleOf(c) IN
  /\ Quiet
  /\ pc[c] = "idle"
  /\ mu[h] = 0
  /\ \E x \in Ctxs : \E out \in EvalOutcomes(x) :
       /\ store' = RefreshStore(h, out)
       /\ CountEval(c, evals[c], out)
       /\ Finish(c, "Refresh", RefreshResult(h, out), 0)
  /\ UNCHANGED <<cfg, mu, wdvars, ctxDone, held, acq>>

\* -------------------------------------------------------------- watchdog
\* return from the goroutine: ticker.Stop(), close(l.watchDogDone)
WdExit(h) ==
  /\ wdpc' = [wdpc EXCEPT ![h] = "exit"]
  /\ wdDone' = [wdDone EXCEPT ![h] = TRUE]
  /\ tickLeft' = [tickLeft EXCEPT ![h] = 0]
  /\ tickPending' = [tickPending EXCEPT ![h] = FALSE]

\* select: case <-ticker.C, up to l.mu.Lock() of Refresh
WdTick(h) ==
  /\ Quiet
  /\ wdpc[h] = "select"
  /\ tickPending[h]
  /\ tickPending' = [tickPending EXCEPT ![h] = FALSE]
  /\ wdpc' = [wdpc EXCEPT ![h] = "ref_mu"]
  /\ UNCHANGED <<cfg, store, mu, wdOnce, wdCancel, wdCtx, wdDone,
                 tickLeft, cvars, ctxDone, held, acq>>

\* select: case <-l.watchDogCtx.Done(): return
WdStopped(h) ==
  /\ Quiet
  /\ wdpc[h] = "select"
  /\ wdCancel[h] = "cancelled"
  /\ WdExit(h)
  /\ UNCHANGED <<cfg, store, mu, wdOnce, wdCancel, wdCtx,
                 cvars, ctxDone, held, acq>>

\* select: case <-ctx.Done(): return
WdCtxDone(h) ==
  /\ Quiet
  /\ wdpc[h] = "select"
  /\ CtxIsDone(wdCtx[h])
  /\ WdExit(h)
  /\ UNCHANGED <<cfg, store, mu, wdOnce, wdCancel, wdCtx,
                 cvars, ctxDone, held, acq>>

\* A faulty watchdog that goes back to its select whatever l.Refresh returned
\* (to test WatchDogStopsOnFailure).
WdRefreshRetry(h) ==
  \E out \in EvalOutcomes(wdCtx[h]) :
    /\ Quiet
    /\ wdpc[h] = "ref_mu"
    /\ mu[h] = 0
    /\ store' = RefreshStore(h, out)
    /\ wdpc' = [wdpc EXCEPT ![h] = "select"]
    /\ UNCHANGED <<wdDone, tickLeft, tickPending>>
    /\ UNCHANGED <<cfg, mu, wdOnce, wdCancel, wdCtx, cvars, ctxDone, held, acq>>

\* The watchdog's l.Refresh(ctx), from l.mu.Lock() on; on an error the
\* goroutine returns, otherwise it goes back to the select.
WdRefresh(h) ==
  \E out \in EvalOutcomes(wdCtx[h]) :
    /\ Quiet
    /\ wdpc[h] = "ref_mu"
    /\ mu[h] = 0
    /\ store' = RefreshStore(h, out)
    /\ IF RefreshResult(h, out) # "nil"
         THEN WdExit(h)
         ELSE /\ wdpc' = [wdpc EXCEPT ![h] = "select"]
              /\ UNCHANGED <<wdDone, tickLeft, tickPending>>
    /\ UNCHANGED <<cfg, mu, wdOnce, wdCancel, wdCtx, cvars, ctxDone, held, acq>>

\* -------------------------------------------------------------------- time
\* A goroutine that can take its next step now (no time passes before it does).
CallerReady(c) ==
  \/ pc[c] = "ret"
  \/ pc[c] = "unl_wait" /\ wdDone[HandleOf(c)]
  \/ pc[c] = "lock_wait" /\ CtxIsDone(cctx[c])
  \/ pc[c] = "lock_wait" /\ sleepLeft[c] = 0 /\ mu[HandleOf(c)] = 0

WdReady(h) ==
  \/ wdpc[h] = "ref_mu" /\ mu[h] = 0
  \/ wdpc[h] = "select"
       /\ (tickPending[h] \/ wdCancel[h] = "cancelled" \/ CtxIsDone(wdCtx[h]))

TickerOn(h) == wdpc[h] \in {"select", "ref_mu"}

\* A faulty store in which a TTL never runs down (to test ExpiryFrees).
AgeNever(rec) == rec

\* The store's expiry: a record whose TTL has run out is gone.
Age(rec) ==
  IF rec.owner = 0 \/ rec.ttl <= 1 THEN NoRecord
  ELSE [rec EXCEPT !.ttl = rec.ttl - 1]

\* How far past its deadline a Lock call is still told apart.
Overdue == 0 - (PollInterval + 1)

\* One time unit passes: TTLs run down (pexpire), Lock's deadline comes
\* nearer, its time.After timer and the watchdogs' tickers advance.  A tick
\* that finds ticker.C full is dropped.
Tick ==
  /\ \A c \in Callers : ~CallerReady(c)
  /\ \A h \in Handles : ~WdReady(h)
  /\ store' = [k \in Keys |-> Age(store[k])]
  /\ held' = [h \in Handles |->
                held[h] /\ ~(store[KeyOf(h)].owner = Token(h)
                             /\ Age(store[KeyOf(h)]).owner = 0)]
  /\ sleepLeft' = [c \in Callers |->
                     IF sleepLeft[c] > 0 THEN sleepLeft[c] - 1 ELSE 0]
  /\ deadline' = [c \in Callers |->
                    IF pc[c] = "lock_wait"
                         /\ options[HandleOf(c)].WaitTimeout > 0
                         /\ deadline[c] > Overdue
                      THEN deadline[c] - 1 ELSE deadline[c]]
  /\ tickLeft' = [h \in Handles |->
                    IF ~TickerOn(h) THEN tickLeft[h]
                    ELSE IF tickLeft[h] <= 1 THEN TickPeriod(h)
                    ELSE tickLeft[h] - 1]
  /\ tickPending' = [h \in Handles |->
                       tickPending[h] \/ (TickerOn(h) /\ tickLeft[h] <= 1)]
  /\ UNCHANGED <<cfg, mu, wdOnce, wdCancel, wdCtx, wdDone, wdpc,
                 pc, op, cctx, res, evals, evalErr, ctxDone, acq>>

\* ------------------------------------------------------------------- Next
Next ==
  \/ \E c \in Callers : Observe(c)
  \/ \E c \in Callers : CallLock(c)
  \/ \E c \in Callers : CallTryLock(c)
  \/ \E c \in Callers : CallUnlock(c)
  \/ \E c \in Callers : CallRefresh(c)
  \/ \E c \in Callers : LockRetry(c)
  \/ \E c \in Callers : LockWaitCtxDone(c)
  \/ \E c \in Callers : UnlockAfterDone(c)
  \/ \E h \in Handles : WdTick(h)
  \/ \E h \in Handles : WdStopped(h)
  \/ \E h \in Handles : WdCtxDone(h)
  \/ \E h \in Handles : WdRefresh(h)
  \/ CancelCtx
  \/ Tick

Spec == Init /\ [][Next]_vars

\* The runs in which the store answers every call made with a live ctx.
InitReliable == Init /\ ~faults

SpecReliable == InitReliable /\ [][Next]_vars

\* What the Go scheduler and the clock guarantee: a goroutine that can run
\* again and again does run (a waiter on l.mu gets it: sync.Mutex hands the
\* mutex to a waiter that has been starved), a caller looks at the result it
\* got, and time goes on.  Nothing obliges the user to make a call or to
\* cancel the ctx.  The fairness is strong because a step of the model waits
\* for the callers that have a result in hand (Quiet).
Fairness ==
  /\ \A c \in Callers :
       /\ SF_vars(Observe(c))
       /\ SF_vars(LockRetry(c))
       /\ SF_vars(LockWaitCtxDone(c))
       /\ SF_vars(UnlockAfterDone(c))
  /\ \A h \in Handles :
       /\ SF_vars(WdTick(h) \/ WdStopped(h) \/ WdCtxDone(h))
       /\ SF_vars(WdRefresh(h))
  /\ SF_vars(Tick)

SpecFair == InitReliable /\ [][Next]_vars /\ Fairness

\* The least of it that a polling Lock needs: time goes on, and a Lock whose
\* time.After has fired goes round its loop.
FairPolling ==
  /\ WF_vars(Tick)
  /\ \A c \in Callers : WF_vars(LockRetry(c))

SpecPolling == InitReliable /\ [][Next]_vars /\ FairPolling

\* The runs of two handles of the same name under different prefixes.
SpecPrefixes == InitPrefixes /\ [][Next]_vars

\* The runs of two goroutines that share one handle.
SpecShared == InitShared /\ [][Next]_vars

TypeOK ==
  /\ \A k \in Keys : store[k].owner \in {0} \cup Handles
  /\ \A h \in Handles : mu[h] \in {0} \cup Callers

\* ================================================================== claims
\* The step in which caller c's call of operation o returns.
Returns(c, o) == pc[c] # "ret" /\ pc'[c] = "ret" /\ op'[c] = o

\* How long a Lock call of caller c has run, from its deadline.
Elapsed(c) == options[HandleOf(c)].WaitTimeout - deadline[c]

\* ---------------------------------------------------------------------- C1
\* C1 (mutual exclusion): for every key, at every instant at most one handle
\* is Held: its ConditionalCreate succeeded and neither its successful Unlock
\* nor the expiry of its record has followed.
MutualExclusion ==
  \A k \in Keys : Cardinality({h \in Handles : KeyOf(h) = k /\ held[h]}) <= 1

\* One handle is Held while a call on the other handle of the key has just
\* been turned away.
MutualExclusionWitness ==
  \E h \in Handles, c \in Callers :
    /\ HandleOf(c) # h /\ KeyOf(HandleOf(c)) = KeyOf(h)
    /\ held[h]
    /\ pc[c] = "ret" /\ op[c] \in {"TryLock", "Lock"}
    /\ res[c] \in {"contended", "ErrLockTimeout"}

\* ---------------------------------------------------------------------- C2
\* C2 (safe release): an Unlock whose token is not the record's owner leaves
\* every record as it was and does not return nil (it returns ErrLockNotHeld
\* when the store answers); an Unlock changes the store only by deleting the
\* record its own token owns; and a record goes away only by its expiry or by
\* an Unlock of its owner.
SafeRelease ==
  [][ /\ \A c \in Callers :
           Returns(c, "Unlock") =>
             /\ store[KeyOf(HandleOf(c))].owner # Token(HandleOf(c)) =>
                  /\ store' = store
                  /\ res'[c] # "nil"
                  /\ (~faults /\ ~ctxDone) => res'[c] = "ErrLockNotHeld"
             /\ \A k \in Keys :
                  store'[k] # store[k] =>
                    /\ k = KeyOf(HandleOf(c))
                    /\ store[k].owner = Token(HandleOf(c))
                    /\ store'[k] = NoRecord
      /\ \A k \in Keys :
           (store[k].owner # 0 /\ store'[k].owner # store[k].owner) =>
             /\ store'[k] = NoRecord
             /\ \/ store[k].ttl = 1 /\ \A c \in Callers : pc'[c] = pc[c]
                \/ \E c \in Callers : /\ Returns(c, "Unlock")
                                      /\ Token(HandleOf(c)) = store[k].owner
    ]_vars

\* An Unlock on a handle that does not own the record has returned
\* ErrLockNotHeld, and the other handle is still Held.
SafeReleaseWitness ==
  \E h \in Handles, c \in Callers :
    /\ HandleOf(c) # h /\ held[h]
    /\ store[KeyOf(HandleOf(c))].owner = Token(h)
    /\ pc[c] = "ret" /\ op[c] = "Unlock" /\ res[c] = "ErrLockNotHeld"

\* ---------------------------------------------------------------------- C3
\* C3 (Unlock completes with the watchdog running): no state is reachable in
\* which Unlock waits for the watchdog's done signal while the watchdog waits
\* for the mutex Unlock holds.
UnlockNeverBlocksWatchDog ==
  \A c \in Callers :
    ~(/\ pc[c] = "unl_wait"
      /\ mu[HandleOf(c)] = c
      /\ ~wdDone[HandleOf(c)]
      /\ wdpc[HandleOf(c)] = "ref_mu")

\* ---------------------------------------------------------------------- C4
\* C4 (the watchdog keeps the lease alive): with the watchdog enabled, the
\* store answering every call at once, the ctx of the acquiring call live and
\* no Unlock having stopped the handle's watchdog, the record of an acquired
\* lock is still there, owned by the handle's token.
LeaseKeptAlive ==
  \A h \in Handles :
    (/\ ~faults
     /\ options[h].EnableWatchDog
     /\ acq[h] # NoCtx
     /\ ~CtxIsDone(acq[h])
     /\ wdCancel[h] # "cancelled")
      => store[KeyOf(h)].owner = Token(h)

\* ---------------------------------------------------------------------- C5
\* C5 (every acquisition is renewed): with the watchdog enabled, after every
\* successful acquisition the watchdog runs for as long as the lock is held,
\* Unlock has not been called and the acquiring ctx is live.
EveryAcquisitionRenewed ==
  \A h \in Handles :
    (/\ ~faults
     /\ options[h].EnableWatchDog
     /\ acq[h] # NoCtx
     /\ ~CtxIsDone(acq[h])
     /\ held[h])
      => wdpc[h] \in {"select", "ref_mu"}

\* ---------------------------------------------------------------------- C6
\* C6 (timeout): a Lock that returns ErrLockTimeout has run for no less than
\* WaitTimeout and for less than WaitTimeout plus one poll interval; and no
\* Lock with WaitTimeout > 0 is still waiting at WaitTimeout plus one poll
\* interval.
TimeoutWindow ==
  \A c \in Callers :
    /\ (pc[c] = "ret" /\ op[c] = "Lock" /\ res[c] = "ErrLockTimeout") =>
         /\ options[HandleOf(c)].WaitTimeout <= Elapsed(c)
         /\ Elapsed(c) < options[HandleOf(c)].WaitTimeout + PollInterval
    /\ (pc[c] = "lock_wait" /\ options[HandleOf(c)].WaitTimeout > 0) =>
         Elapsed(c) < options[HandleOf(c)].WaitTimeout + PollInterval

\* A Lock with WaitTimeout > 0 has returned ErrLockTimeout while the other
\* handle holds the lock.
TimeoutWindowWitness ==
  \E h \in Handles, c \in Callers :
    /\ HandleOf(c) # h /\ held[h]
    /\ options[HandleOf(c)].WaitTimeout > 0
    /\ pc[c] = "ret" /\ op[c] = "Lock" /\ res[c] = "ErrLockTimeout"

\* ---------------------------------------------------------------------- C7
\* C7 (cancellation): once the ctx of a waiting Lock is done no time passes
\* before the Lock returns, and what it returns is the ctx's error, never
\* ErrLockTimeout; ErrLockTimeout is returned only by a Lock with
\* WaitTimeout > 0 whose deadline has passed.
CancellationDistinct ==
  [][ \A c \in Callers :
        /\ (pc[c] = "lock_wait" /\ CtxIsDone(cctx[c])) =>
             \/ /\ pc'[c] = "lock_wait"
                /\ sleepLeft'[c] = sleepLeft[c]
                /\ deadline'[c] = deadline[c]
             \/ Returns(c, "Lock") /\ res'[c] = "ctxErr"
        /\ (pc[c] # "ret" /\ pc'[c] = "ret" /\ res'[c] = "ErrLockTimeout") =>
             /\ op'[c] = "Lock"
             /\ options[HandleOf(c)].WaitTimeout > 0
             /\ deadline'[c] <= 0
    ]_vars

\* A Lock has returned the ctx's error out of its wait, before its retry
\* timer fired.
CancellationDistinctWitness ==
  \E c \in Callers :
    /\ pc[c] = "ret" /\ op[c] = "Lock" /\ res[c] = "ctxErr"
    /\ sleepLeft[c] > 0 /\ ctxDone

\* ---------------------------------------------------------------------- C8
\* What Lock may return by the three exits: nil having just created the
\* record for its token, the error of its done ctx, or ErrLockTimeout with
\* WaitTimeout > 0 and the deadline passed.
LockExit(c) ==
  \/ /\ res[c] = "nil"
     /\ held[HandleOf(c)]
     /\ store[KeyOf(HandleOf(c))] =
          [owner |-> Token(HandleOf(c)), ttl |-> EffectiveLease(HandleOf(c))]
  \/ res[c] = "ctxErr" /\ ctxDone
  \/ /\ res[c] = "ErrLockTimeout"
     /\ options[HandleOf(c)].WaitTimeout > 0
     /\ deadline[c] <= 0

\* C8 as stated (exits of Lock): Lock returns only when a TryLock succeeded,
\* the ctx is done, or WaitTimeout > 0 and the deadline has passed.
LockExits ==
  \A c \in Callers : (pc[c] = "ret" /\ op[c] = "Lock") => LockExit(c)

\* C8 amended (exits of Lock): Lock returns only by one of the three exits or
\* when a TryLock returned an error of the store, which Lock hands on.
LockExitsAmended ==
  \A c \in Callers :
    (pc[c] = "ret" /\ op[c] = "Lock") =>
      (LockExit(c) \/ (res[c] = "storeErr" /\ faults))

\* A Lock has returned an error of the store.
LockExitsWitness ==
  \E c \in Callers : pc[c] = "ret" /\ op[c] = "Lock" /\ res[c] = "storeErr"

\* ---------------------------------------------------------------------- C9
\* C9 (reentrance): a TryLock on the handle whose token owns the record is
\* answered with success, not turned away.
Reentrance ==
  \A c \in Callers :
    (/\ pc[c] = "ret" /\ op[c] = "TryLock"
     /\ res[c] \in {"acquired", "contended"}
     /\ store[KeyOf(HandleOf(c))].owner = Token(HandleOf(c)))
      => res[c] = "acquired"

\* --------------------------------------------------------------------- C10
\* C10 (Refresh): every Refresh on the owner's handle leaves the owner as it
\* is, returns nil when the store answers and then has set the TTL to the
\* effective lease; every Refresh on another handle leaves the record as it
\* is and does not return nil (ErrLockNotHeld when the store answers).
RefreshSafe ==
  [][ \A c \in Callers :
        Returns(c, "Refresh") =>
          /\ \A k \in Keys : k # KeyOf(HandleOf(c)) => store'[k] = store[k]
          /\ IF store[KeyOf(HandleOf(c))].owner = Token(HandleOf(c))
               THEN /\ store'[KeyOf(HandleOf(c))].owner = Token(HandleOf(c))
                    /\ store'[KeyOf(HandleOf(c))].ttl \in
                         {store[KeyOf(HandleOf(c))].ttl, EffectiveLease(HandleOf(c))}
                    /\ res'[c] = "nil" =>
                         store'[KeyOf(HandleOf(c))].ttl = EffectiveLease(HandleOf(c))
                    /\ (~faults /\ ~ctxDone) => res'[c] = "nil"
               ELSE /\ store' = store
                    /\ res'[c] # "nil"
                    /\ (~faults /\ ~ctxDone) => res'[c] = "ErrLockNotHeld"
    ]_vars

\* A Refresh on the owner's handle has returned nil with the TTL at the
\* effective lease.
RefreshSafeWitness ==
  \E c \in Callers :
    /\ pc[c] = "ret" /\ op[c] = "Refresh" /\ res[c] = "nil"
    /\ held[HandleOf(c)]
    /\ store[KeyOf(HandleOf(c))] =
         [owner |-> Token(HandleOf(c)), ttl |-> EffectiveLease(HandleOf(c))]

\* --------------------------------------------------------------------- C11
\* C11 (round trip): an Unlock that returns nil was called by the owner and
\* leaves no record at the key; and a TryLock or Lock called while there is
\* no record at the handle's key, the store answering, succeeds at its first
\* attempt, whatever was called on any handle before.
RoundTrip ==
  [][ \A c \in Callers :
        /\ (Returns(c, "Unlock") /\ res'[c] = "nil") =>
             /\ store[KeyOf(HandleOf(c))].owner = Token(HandleOf(c))
             /\ store'[KeyOf(HandleOf(c))] = NoRecord
        /\ (/\ pc[c] = "idle" /\ pc'[c] # "idle"
            /\ op'[c] \in {"TryLock", "Lock"}
            /\ store[KeyOf(HandleOf(c))] = NoRecord
            /\ ~faults /\ ~ctxDone) =>
             /\ pc'[c] = "ret"
             /\ res'[c] = (IF op'[c] = "Lock" THEN "nil" ELSE "acquired")
             /\ store'[KeyOf(HandleOf(c))].owner = Token(HandleOf(c))
    ]_vars

\* An Unlock has returned nil on a handle that had acquired the lock, and the
\* record is gone.
RoundTripWitness ==
  \E c \in Callers :
    /\ pc[c] = "ret" /\ op[c] = "Unlock" /\ res[c] = "nil"
    /\ store[KeyOf(HandleOf(c))] = NoRecord
    /\ ~held[HandleOf(c)]

\* --------------------------------------------------------------------- C12
\* Handles of the same lock name built by Clients with different prefixes.
Strangers(h1, h2) ==
  h1 # h2 /\ prefix[h1] # prefix[h2] /\ LockName(h1) = LockName(h2)

\* C12 (namespace isolation): two handles of the same name under different
\* prefixes use different keys; a TryLock or Lock on one is never turned away
\* because of the other's record (it succeeds when its own key has no record,
\* whether or not the other is held); and no call on one handle, nor its
\* watchdog, changes the record of the other.
NamespaceIsolation ==
  /\ [](\A h1, h2 \in Handles : Strangers(h1, h2) => KeyOf(h1) # KeyOf(h2))
  /\ [][ \A c \in Callers, h2 \in Handles :
           Strangers(HandleOf(c), h2) =>
             /\ (/\ pc[c] = "idle" /\ pc'[c] # "idle"
                 /\ op'[c] \in {"TryLock", "Lock"}
                 /\ store[KeyOf(HandleOf(c))] = NoRecord
                 /\ ~faults /\ ~ctxDone) =>
                  /\ pc'[c] = "ret"
                  /\ res'[c] \in {"nil", "acquired"}
                  /\ held'[HandleOf(c)] /\ held'[h2] = held[h2]
             /\ (pc'[c] = "ret" /\ res'[c] = "contended") =>
                  store[KeyOf(HandleOf(c))].owner = Token(HandleOf(c))
             /\ (pc'[c] # pc[c] \/ wdpc'[HandleOf(c)] # wdpc[HandleOf(c)]) =>
                  store'[KeyOf(h2)] = store[KeyOf(h2)]
       ]_vars

\* Two handles of the same name under different prefixes are Held at the same
\* time, the second having just succeeded.
NamespaceIsolationWitness ==
  \E c \in Callers, h2 \in Handles :
    /\ Strangers(HandleOf(c), h2)
    /\ held[HandleOf(c)] /\ held[h2]
    /\ pc[c] = "ret" /\ op[c] = "TryLock" /\ res[c] = "acquired"

\* --------------------------------------------------------------------- C13
\* The handle acquired the lock with the watchdog enabled, Unlock has not been
\* called on it since, and it is Held no more: its record has expired.
Lost(h) == wdOnce[h] /\ wdCancel[h] = "set" /\ ~held[h]

\* C13 (Lost is terminal): no TryLock or Lock moves a handle that has lost the
\* lock back to Held.
LostIsTerminal ==
  [][ \A h \in Handles : Lost(h) => ~held'[h] ]_vars

\* --------------------------------------------------------------------- C14
\* C14 (TryLock under contention): a TryLock called while a record exists at
\* the key makes exactly one Eval call, leaves every record as it was, starts
\* no watchdog and, when the store answers, returns (false, nil); and no
\* TryLock returns an error unless the store call fails (a failing store, or
\* a done ctx).
TryLockContended ==
  [][ \A c \in Callers :
        Returns(c, "TryLock") =>
          /\ evals'[c] = 1
          /\ res'[c] \in {"storeErr", "ctxErr"} => (faults \/ ctxDone)
          /\ store[KeyOf(HandleOf(c))].owner # 0 =>
               /\ store' = store
               /\ held' = held
               /\ wdOnce' = wdOnce /\ wdpc' = wdpc /\ wdCancel' = wdCancel
               /\ res'[c] # "acquired"
               /\ (~faults /\ ~ctxDone) => res'[c] = "contended"
    ]_vars

\* A TryLock has returned (false, nil) while the other handle holds the lock.
TryLockContendedWitness ==
  \E c \in Callers, h \in Handles :
    /\ h # HandleOf(c) /\ held[h]
    /\ store[KeyOf(HandleOf(c))].owner = Token(h)
    /\ pc[c] = "ret" /\ op[c] = "TryLock" /\ res[c] = "contended"
    /\ evals[c] = 1

\* --------------------------------------------------------------------- C15
\* C15 (zero wait timeout): a Lock on a handle with WaitTimeout 0 never
\* returns ErrLockTimeout; it returns only nil having acquired, an error of
\* the store, or the error of its done ctx; and each time its retry timer
\* fires it tries again and, finding the key held, waits for another poll
\* interval.
ZeroWaitNoDeadline ==
  /\ [](\A c \in Callers :
          (options[HandleOf(c)].WaitTimeout = 0 /\ op[c] = "Lock") =>
            /\ res[c] # "ErrLockTimeout"
            /\ pc[c] = "ret" =>
                 \/ res[c] = "nil" /\ held[HandleOf(c)]
                 \/ res[c] = "storeErr" /\ faults
                 \/ res[c] = "ctxErr" /\ ctxDone)
  /\ [][ \A c \in Callers :
           (/\ options[HandleOf(c)].WaitTimeout = 0
            /\ pc[c] = "lock_wait" /\ sleepLeft[c] = 0
            /\ ~CtxIsDone(cctx[c])
            /\ (pc'[c] # pc[c] \/ sleepLeft'[c] # sleepLeft[c])) =>
             \/ /\ pc'[c] = "lock_wait" /\ sleepLeft'[c] = PollInterval
                /\ store[KeyOf(HandleOf(c))].owner # 0
                /\ store' = store
             \/ pc'[c] = "ret" /\ res'[c] \in {"nil", "storeErr"}
       ]_vars

\* A Lock with WaitTimeout 0 has waited a whole poll interval and is about to
\* try again, while the other handle holds the lock.
ZeroWaitNoDeadlineWitness ==
  \E c \in Callers, h \in Handles :
    /\ h # HandleOf(c) /\ held[h]
    /\ options[HandleOf(c)].WaitTimeout = 0
    /\ pc[c] = "lock_wait" /\ sleepLeft[c] = 0

\* --------------------------------------------------------------------- C16
\* C16 (Unlock after the watchdog): when Unlock issues the Eval of the Unlock
\* script, the handle's watchdog, if one was ever started, has terminated and
\* closed watchDogDone; and a watchdog that has terminated stays so, issuing
\* no Refresh at or after that Eval.
UnlockAfterWatchDog ==
  [][ /\ \A c \in Callers :
           Returns(c, "Unlock") =>
             /\ wdpc[HandleOf(c)] \in {"none", "exit"}
             /\ wdpc'[HandleOf(c)] = wdpc[HandleOf(c)]
             /\ wdOnce[HandleOf(c)] =>
                  wdpc[HandleOf(c)] = "exit" /\ wdDone[HandleOf(c)]
             /\ evals'[c] = 1
      /\ \A h \in Handles : wdpc[h] = "exit" => wdpc'[h] = "exit"
    ]_vars

\* An Unlock has returned nil on a handle whose watchdog it had to stop.
UnlockAfterWatchDogWitness ==
  \E c \in Callers :
    /\ pc[c] = "ret" /\ op[c] = "Unlock" /\ res[c] = "nil"
    /\ wdCancel[HandleOf(c)] = "cancelled"
    /\ wdpc[HandleOf(c)] = "exit" /\ wdDone[HandleOf(c)]

\* --------------------------------------------------------------------- C17
\* The watchdog goroutine of handle h is started in this step.
WatchDogStarts(h) ==
  wdpc[h] \notin {"select", "ref_mu"} /\ wdpc'[h] \in {"select", "ref_mu"}

\* C17 (at most one watchdog per handle): whatever two goroutines call on one
\* handle, its watchdog goroutine is started only while none has been started
\* before, so at most once; a handle without watchDogOnce run has no watchdog.
OneWatchDog ==
  /\ [](\A h \in Handles : wdpc[h] # "none" => wdOnce[h])
  /\ [][ \A h \in Handles :
           /\ WatchDogStarts(h) => (~wdOnce[h] /\ wdpc[h] = "none")
           /\ wdOnce[h] => wdOnce'[h]
       ]_vars

\* A second acquisition on the handle, made after an Unlock stopped its
\* watchdog, has just succeeded.
OneWatchDogWitness ==
  \E c \in Callers :
    /\ handle = [d \in Callers |-> HandleOf(c)]
    /\ pc[c] = "ret" /\ op[c] \in {"TryLock", "Lock"}
    /\ res[c] \in {"acquired", "nil"}
    /\ wdOnce[HandleOf(c)] /\ wdCancel[HandleOf(c)] = "cancelled"
    /\ wdpc[HandleOf(c)] = "exit"

\* --------------------------------------------------------------------- C18
\* C18 (the watchdog stops on the first refresh failure): a watchdog's Refresh
\* that cannot succeed (the record is not the handle's, or the ctx is done)
\* ends the watchdog; the watchdog goes back to its select only after a
\* Refresh that set the TTL; a watchdog that ends closes watchDogDone, hands
\* nothing to any caller and never refreshes again; and an Unlock called after
\* that returns without waiting.
WatchDogStopsOnFailure ==
  [][ /\ \A h \in Handles :
           /\ (wdpc[h] = "ref_mu" /\ wdpc'[h] # "ref_mu") =>
                /\ wdpc'[h] \in {"select", "exit"}
                /\ (store[KeyOf(h)].owner # Token(h) \/ CtxIsDone(wdCtx[h])) =>
                     (wdpc'[h] = "exit" /\ store' = store)
                /\ wdpc'[h] = "select" =>
                     store'[KeyOf(h)] =
                       [owner |-> Token(h), ttl |-> EffectiveLease(h)]
                /\ wdpc'[h] = "exit" => wdDone'[h]
                /\ pc' = pc /\ res' = res /\ op' = op
           /\ wdpc[h] = "exit" => wdpc'[h] = "exit"
      /\ \A c \in Callers :
           (/\ pc[c] = "idle" /\ pc'[c] # "idle" /\ op'[c] = "Unlock"
            /\ wdpc[HandleOf(c)] = "exit") =>
             (pc'[c] = "ret" /\ mu' = mu)
    ]_vars

\* A watchdog has ended though no Unlock has cancelled it and no ctx is done:
\* its Refresh failed.
WatchDogStopsOnFailureWitness ==
  \E h \in Handles :
    /\ wdpc[h] = "exit" /\ wdDone[h]
    /\ wdCancel[h] = "set"
    /\ ~ctxDone

\* --------------------------------------------------------------------- C19
\* C19 (the watchdog is bound to the acquiring ctx): once the ctx of the call
\* that started the watchdog is done, the watchdog eventually stops, whatever
\* is called on the handle later.
WatchDogBoundToCtx ==
  \A h \in Handles :
    (CtxIsDone(wdCtx[h]) /\ wdpc[h] \in {"select", "ref_mu"})
      ~> (wdpc[h] = "exit")

\* --------------------------------------------------------------------- C20
\* C20 (effective lease): every TTL that a step gives to a record, at its
\* creation by TryLock or at a Refresh (the user's or the watchdog's), is the
\* WatchDogTimeout of the owner's handle if its watchdog is enabled and its
\* LeaseTime if not; with the watchdog enabled LeaseTime reaches no record.
EffectiveLeaseSent ==
  [][ \A k \in Keys, h \in Handles :
        (/\ KeyOf(h) = k
         /\ store'[k].owner = Token(h)
         /\ (store[k].owner = 0 \/ store'[k].ttl > store[k].ttl)) =>
          store'[k].ttl = (IF options[h].EnableWatchDog
                             THEN options[h].WatchDogTimeout
                             ELSE options[h].LeaseTime)
    ]_vars

\* A Refresh on a handle with the watchdog enabled, whose LeaseTime differs
\* from its WatchDogTimeout, has returned nil and the TTL is WatchDogTimeout.
EffectiveLeaseSentWitness ==
  \E c \in Callers :
    /\ options[HandleOf(c)].EnableWatchDog
    /\ options[HandleOf(c)].LeaseTime # options[HandleOf(c)].WatchDogTimeout
    /\ pc[c] = "ret" /\ op[c] = "Refresh" /\ res[c] = "nil"
    /\ store[KeyOf(HandleOf(c))].ttl = options[HandleOf(c)].WatchDogTimeout

\* --------------------------------------------------------------------- C21
\* The caller is inside Unlock, between l.mu.Lock() and the deferred
\* l.mu.Unlock(), waiting on <-l.watchDogDone.
InUnlock(c) == pc[c] = "unl_wait" /\ mu[HandleOf(c)] = c

\* C21 (per-handle serialization): while one goroutine is inside Unlock on a
\* handle, no other goroutine is inside TryLock, Unlock or Refresh on it: no
\* second caller is inside Unlock, no call of another caller on the handle
\* starts or returns (but a Lock that leaves its select on ctx.Done(), which
\* is outside TryLock), the watchdog's Refresh stays at l.mu.Lock(), no Eval
\* is counted for another caller, and no script carrying the handle's token
\* changes the record.
Serialization ==
  [][ \A c \in Callers :
        InUnlock(c) =>
          LET h == HandleOf(c)
              k == KeyOf(HandleOf(c))
          IN /\ \A d \in Callers \ {c} :
                  HandleOf(d) = h =>
                    /\ pc[d] # "unl_wait"
                    /\ pc'[d] # "unl_wait"
                    /\ pc[d] = "idle" => pc'[d] = "idle"
                    /\ (pc[d] = "lock_wait" /\ pc'[d] # "lock_wait") =>
                         (pc'[d] = "ret" /\ res'[d] = "ctxErr")
                    /\ evals'[d] # evals[d] => pc[d] = "ret"
             /\ wdpc[h] = "ref_mu" => wdpc'[h] = "ref_mu"
             /\ (/\ store'[k] # store[k]
                 /\ store'[k] # Age(store[k])
                 /\ pc'[c] = pc[c]) =>
                  (store[k].owner # Token(h) /\ store'[k].owner # Token(h))
    ]_vars

\* One caller is inside Unlock, holding the mutex, while another caller's
\* Lock on the same handle has its retry timer fired and its next TryLock
\* waits for the mutex.
SerializationWitness ==
  \E c \in Callers, d \in Callers :
    /\ c # d /\ HandleOf(c) = HandleOf(d)
    /\ InUnlock(c)
    /\ pc[d] = "lock_wait" /\ sleepLeft[d] = 0 /\ ~CtxIsDone(cctx[d])

\* --------------------------------------------------------------------- C23
\* C23 (store failures are propagated): in the step in which the Eval of a
\* TryLock, Unlock or Refresh fails, the call returns, and so does the Lock
\* that called the TryLock, without another attempt; what it returns is the
\* error of the Eval; that TryLock, Unlock or Refresh has made exactly one
\* Eval; and a failing TryLock or Lock starts no watchdog and leaves the
\* handle's watchdog as it was.
StoreFailuresPropagated ==
  [][ \A c \in Callers :
        (evalErr[c] = "nil" /\ evalErr'[c] # "nil") =>
          /\ pc'[c] = "ret"
          /\ res'[c] = evalErr'[c]
          /\ evals'[c] = 1
          /\ op'[c] \in {"TryLock", "Lock"} => (wdvars' = wdvars /\ acq' = acq)
    ]_vars

\* A Lock that has polled for at least one interval has returned the store's
\* error, after one Eval of its last TryLock.
StoreFailuresPropagatedWitness ==
  \E c \in Callers :
    /\ pc[c] = "ret" /\ op[c] = "Lock"
    /\ res[c] = "storeErr" /\ evalErr[c] = "storeErr" /\ evals[c] = 1
    /\ options[HandleOf(c)].WaitTimeout > 0
    /\ Elapsed(c) >= PollInterval

\* --------------------------------------------------------------------- C22
\* A record that exists has one owner, the token of a handle of its key, and
\* a TTL that is positive and no more than the owner's effective lease.
RecordWellFormed ==
  \A k \in Keys :
    store[k].owner # 0 =>
      /\ \E h \in Handles : KeyOf(h) = k /\ store[k].owner = Token(h)
      /\ store[k].ttl >= 1
      /\ \A h \in Handles :
           store[k].owner = Token(h) => store[k].ttl <= EffectiveLease(h)

\* Nobody but caller c does anything: every other caller is between two calls
\* (makes no Refresh, no Unlock) and no watchdog is running.
OwnerGone(c) ==
  /\ \A d \in Callers \ {c} : pc[d] = "idle"
  /\ \A h \in Handles : wdpc[h] \notin {"select", "ref_mu"}

\* Caller c is in Lock's select with a live ctx.
Polling(c) == pc[c] = "lock_wait" /\ ~CtxIsDone(cctx[c])

\* C22 (expiry prevents deadlock): every record has one owner and a finite
\* TTL, always; and a handle that polls in Lock with a live ctx while nobody
\* else calls anything and no watchdog refreshes (the owner has crashed)
\* eventually acquires the lock, which it can only once the record is absent,
\* unless its WaitTimeout runs out first, its ctx is done, or somebody else
\* does make a call.
ExpiryFrees ==
  /\ []RecordWellFormed
  /\ \A c \in Callers :
       (Polling(c) /\ OwnerGone(c)) ~>
          \/ pc[c] = "ret" /\ op[c] = "Lock" /\ res[c] = "nil"
          \/ pc[c] = "ret" /\ op[c] = "Lock" /\ res[c] = "ErrLockTimeout"
          \/ CtxIsDone(cctx[c])
          \/ ~OwnerGone(c)

\* A Lock that has polled for at least one interval has returned nil and its
\* handle owns the record, while the other handle, which had acquired the
\* lock and has not called Unlock since, is Held no more: its record expired.
ExpiryFreesWitness ==
  \E c \in Callers, h \in Handles :
    /\ h # HandleOf(c) /\ KeyOf(h) = KeyOf(HandleOf(c))
    /\ pc[c] = "ret" /\ op[c] = "Lock" /\ res[c] = "nil"
    /\ options[HandleOf(c)].WaitTimeout > 0 /\ Elapsed(c) >= PollInterval
    /\ store[KeyOf(h)].owner = Token(HandleOf(c))
    /\ acq[h] # NoCtx /\ ~held[h]

====
